---- MODULE Spec2Model ----
(***************************************************************************)
(* Model of run_range_mia.py: main(), the orchestration of one range       *)
(* membership-inference audit run, and of the collaborators it calls.      *)
(* Runs follow one another on the same disk, so the range-dataset cache    *)
(* file written by one run is seen by the next.                            *)
(*                                                                         *)
(* Model indices and base-record indices are 0-based as in the code; rows  *)
(* of matrices are sequences, so column c of the code is position c + 1.   *)
(***************************************************************************)
EXTENDS Integers, Sequences, FiniteSets, TLC

\* ---------------------------------------------------------------- bounds
MaxExperiments == 3
MaxRefModels == 2
MaxSampleSize == 3
NumBase == 2
MaxGroup == 3
MaxScore == 2
MaxFnExperiments == 7
MaxFnRefModels == 6

Base == 0 .. (NumBase - 1)
TrimPcts == {0, 50}

\* Python's None (also an empty list)
NoValue == <<>>
NoFailure == "none"

\* ------------------------------------------------------ pure helpers
RECURSIVE SumSeq(_)
SumSeq(s) == IF s = <<>> THEN 0 ELSE Head(s) + SumSeq(Tail(s))

RECURSIVE SumOver(_, _, _)
SumOver(S, row, k) ==
    IF S = {} THEN 0
    ELSE LET m == CHOOSE x \in S : TRUE
         IN  row[m][k] + SumOver(S \ {m}, row, k)

Max(a, b) == IF a >= b THEN a ELSE b

\* math.ceil(n / 2.0) for an integer n >= 0
CeilHalf(n) == (n + 1) \div 2

\* line 80 with floor in the place of math.ceil
NumModelPairsFloor(ne, nr) == Max(ne \div 2, nr + 1)

\* line 80
NumModelPairs(ne, nr) == Max(CeilHalf(ne), nr + 1)

\* np.repeat(row, s): every element repeated s times in place
RECURSIVE Fill(_, _)
Fill(x, s) == IF s <= 0 THEN <<>> ELSE <<x>> \o Fill(x, s - 1)

RECURSIVE RepeatRow(_, _)
RepeatRow(row, s) ==
    IF row = <<>> THEN <<>>
    ELSE Fill(Head(row), s) \o RepeatRow(Tail(row), s)

\* np.tile(row, s): the whole row repeated s times
RECURSIVE TileRow(_, _)
TileRow(row, s) == IF s <= 0 THEN <<>> ELSE row \o TileRow(row, s - 1)

\* np.tile in the place of np.repeat
NpTileAxis1(matrix, s) == [m \in DOMAIN matrix |-> TileRow(matrix[m], s)]

\* np.repeat(matrix, s, axis=1), line 149
NpRepeatAxis1(matrix, s) == [m \in DOMAIN matrix |-> RepeatRow(matrix[m], s)]

\* ------------------------------------------------- ramia_scores (line 24)
\* trim count per tail for a group of k scores and a trim fraction pct/100
TrimCount(k, pct) == (k * pct) \div 100

\* a degenerate trim fraction removes every score of a group of k
Degenerate(k, pct) == 2 * TrimCount(k, pct) >= k

RECURSIVE Insert(_, _)
Insert(x, s) ==
    IF s = <<>> THEN <<x>>
    ELSE IF x <= Head(s) THEN <<x>> \o s
    ELSE <<Head(s)>> \o Insert(x, Tail(s))

RECURSIVE SortedScores(_)
SortedScores(s) == IF s = <<>> THEN <<>> ELSE Insert(Head(s), SortedScores(Tail(s)))

\* the scores trimmed in the order given
UnsortedScores(s) == s

SortScores(s) == SortedScores(s)

\* the mean of the scores left after symmetric trimming, as sum over count
trim_mia_scores(grp, pct) ==
    LET k == Len(grp)
        c == TrimCount(k, pct)
        kept == SubSeq(SortScores(grp), c + 1, k - c)
    IN  IF Degenerate(k, pct)
        THEN [raised |-> "ValueError", sum |-> 0, n |-> 0]
        ELSE [raised |-> "", sum |-> SumSeq(kept), n |-> Len(kept)]

\* ------------------------------------------------ util.check_configs (50)
check_configs(cfg) ==
    /\ cfg.sample_size > 0
    /\ cfg.num_ref_models >= 2
    /\ ~Degenerate(cfg.sample_size, cfg.trim_pct)

\* ------------------------------------- models.utils (lines 84-94)
\* the training set of model m: the first model of an even pair trains on S,
\* the first model of an odd pair on S with record 0 moved to the other
\* half, and the twin of each on the rest of the records
TrainSet(S, m) ==
    LET inSet == IF (m \div 2) % 2 = 0 THEN S
                 ELSE (S \ {0}) \cup ({0} \ S)
    IN  IF m % 2 = 0 THEN inSet ELSE Base \ inSet

SplitChoices == SUBSET Base

DataSplits(S, n) == [m \in 0 .. (n - 1) |-> TrainSet(S, m)]

MembershipOf(splits) ==
    [m \in DOMAIN splits |->
        [k \in 1 .. NumBase |-> IF (k - 1) \in splits[m] THEN 1 ELSE 0]]

\* ------------------------------------------------ get_signals (line 138)
\* the signal of model m on range point j of base record b
SignalOf(models, m, b, j) ==
    (IF b \in models.train_sets[m] THEN 2 ELSE 0) + ((m + j) % 2)

\* one model's row over the audited range points
SignalRow(models, ad, m) ==
    [c \in 1 .. (Len(ad.indices) * ad.sample_size) |->
        SignalOf(models, m, ad.indices[((c - 1) \div ad.sample_size) + 1],
                 (c - 1) % ad.sample_size)]

\* ------------------------------------- audit.sample_auditing_dataset (132)
RECURSIVE SeqOfSet(_)
SeqOfSet(S) ==
    IF S = {} THEN <<>>
    ELSE LET lo == CHOOSE x \in S : \A y \in S : x <= y
         IN  <<lo>> \o SeqOfSet(S \ {lo})

\* the selections of base records: non-empty, in ascending order
Selections == {SeqOfSet(S) : S \in (SUBSET Base) \ {{}}}

SelectColumns(M, sel) ==
    [m \in DOMAIN M |-> [k \in 1 .. Len(sel) |-> M[m][sel[k] + 1]]]

\* ------------------------------------------ audit_models_range (145-153)
Twin(t) == IF t % 2 = 0 THEN t + 1 ELSE t - 1

Eligible(t, n) == SeqOfSet((0 .. (n - 1)) \ {t, Twin(t)})

\* the pool with only the target taken out
EligibleButTwin(t, n) == SeqOfSet((0 .. (n - 1)) \ {t})

\* the nr reference models drawn from the pool for target t
ReferenceModelsOf(pool, t, nr) ==
    {pool[((t + i) % Len(pool)) + 1] : i \in 0 .. (nr - 1)}

ReferenceModelsWithTwin(t, nr, n) ==
    ReferenceModelsOf(EligibleButTwin(t, n), t, nr)

ReferenceModels(t, nr, n) ==
    ReferenceModelsOf(Eligible(t, n), t, nr)

\* the audit score of target t at range point c against the references
Score(sig, t, refs, c) == Cardinality(refs) * sig[t][c] - SumOver(refs, sig, c)

\* the range group of base record g (1-based) in a row of k-sized groups
Group(row, g, k) == SubSeq(row, (g - 1) * k + 1, g * k)

\* both label classes are present
BothClasses(mvec) ==
    /\ \E i \in DOMAIN mvec : mvec[i] = 1
    /\ \E i \in DOMAIN mvec : mvec[i] = 0

\* --------------------------------------------------------------- state
VARIABLES
    cache,                \* <dataset>_range_auditing.pkl, or NoValue
    configs,              \* the configuration of the current run
    pc,                   \* position of main()
    failure,              \* why the run failed, or NoFailure
    dataset,
    num_model_pairs,
    models_list,
    memberships,
    data_splits,
    auditing_dataset,
    auditing_membership,
    signals,
    target_model_indices,
    expanded,             \* the membership matrix handed to the range audit
    exp_idx,              \* position of the audit loop in target_model_indices
    refs,                 \* reference models of the current experiment
    scores,               \* per-range-point scores of the current experiment
    trimmed,              \* per-base-record scores of the current experiment
    mia_score_list,
    membership_list,
    exp_reports,          \* per-experiment risk reports
    report,               \* the cross-experiment report, or NoValue
    trace,                \* the calls of the current run, in order
    fn_in,                \* input of a pure function under test
    fn_out

vars == <<cache, configs, pc, failure, dataset, num_model_pairs,
          models_list, memberships, data_splits, auditing_dataset,
          auditing_membership, signals, target_model_indices, expanded,
          exp_idx, refs, scores, trimmed, mia_score_list, membership_list,
          exp_reports, report, trace, fn_in, fn_out>>

runVars == <<dataset, num_model_pairs, models_list, memberships, data_splits,
             auditing_dataset, auditing_membership, signals,
             target_model_indices, expanded, exp_idx, refs, scores, trimmed,
             mia_score_list, membership_list, exp_reports, report>>

ConfigSpace ==
    [num_experiments : 1 .. MaxExperiments,
     num_ref_models  : {1, MaxRefModels},
     sample_size     : 0 .. MaxSampleSize,
     trim_pct        : TrimPcts]

FreshRun ==
    /\ failure = NoFailure
    /\ dataset = NoValue
    /\ num_model_pairs = 0
    /\ models_list = NoValue
    /\ memberships = NoValue
    /\ data_splits = NoValue
    /\ auditing_dataset = NoValue
    /\ auditing_membership = NoValue
    /\ signals = NoValue
    /\ target_model_indices = <<>>
    /\ expanded = NoValue
    /\ exp_idx = 0
    /\ refs = {}
    /\ scores = <<>>
    /\ trimmed = <<>>
    /\ mia_score_list = <<>>
    /\ membership_list = <<>>
    /\ exp_reports = <<>>
    /\ report = NoValue
    /\ trace = <<>>

Init ==
    /\ cache = NoValue
    /\ configs = NoValue
    /\ pc = "idle"
    /\ FreshRun
    /\ fn_in = NoValue
    /\ fn_out = NoValue

NumModels == 2 * num_model_pairs

Event(name, arg) == [op |-> name, arg |-> arg]

Call(name) == trace' = Append(trace, Event(name, -1))

CallOn(name, arg) == trace' = Append(trace, Event(name, arg))

\* ------------------------------------------------------------- main()
\* lines 35-47: a run starts and reads its configuration
StartRun ==
    /\ pc = "idle"
    /\ \E cfg \in ConfigSpace : configs' = cfg
    /\ pc' = "check_configs"
    /\ UNCHANGED <<cache, failure, trace, fn_in, fn_out>>
    /\ UNCHANGED runVars

\* lines 72-75 placed before line 50
CheckConfigsAfterLoad ==
    /\ pc = "check_configs"
    /\ dataset' = [kind |-> "base", size |-> NumBase]
    /\ trace' = trace \o <<Event("load_dataset", -1),
                           Event("check_configs", -1)>>
    /\ IF check_configs(configs)
       THEN pc' = "setup" /\ failure' = failure
       ELSE pc' = "failed" /\ failure' = "config"
    /\ UNCHANGED <<cache, configs, num_model_pairs, models_list,
                   memberships, data_splits, auditing_dataset,
                   auditing_membership, signals, target_model_indices,
                   expanded, exp_idx, refs, scores, trimmed, mia_score_list,
                   membership_list, exp_reports, report, fn_in, fn_out>>

\* lines 49-50
CheckConfigs ==
    /\ pc = "check_configs"
    /\ Call("check_configs")
    /\ IF check_configs(configs)
       THEN pc' = "setup" /\ failure' = failure
       ELSE pc' = "failed" /\ failure' = "config"
    /\ UNCHANGED <<cache, configs, fn_in, fn_out>>
    /\ UNCHANGED runVars

\* lines 52-70: seeds, directories, logger
SetupRun ==
    /\ pc = "setup"
    /\ pc' = "load_dataset"
    /\ Call("setup")
    /\ UNCHANGED <<cache, configs, failure, fn_in, fn_out>>
    /\ UNCHANGED runVars

\* lines 72-75
LoadDataset ==
    /\ pc = "load_dataset"
    /\ pc' = "define_params"
    /\ dataset' = [kind |-> "base", size |-> NumBase]
    /\ Call("load_dataset")
    /\ UNCHANGED <<cache, configs, failure, num_model_pairs,
                   models_list, memberships, data_splits, auditing_dataset,
                   auditing_membership, signals, target_model_indices,
                   expanded, exp_idx, refs, scores, trimmed, mia_score_list,
                   membership_list, exp_reports, report, fn_in, fn_out>>

\* lines 77-80
DefineExperimentParameters ==
    /\ pc = "define_params"
    /\ pc' = "load_models"
    /\ num_model_pairs' =
           NumModelPairs(configs.num_experiments, configs.num_ref_models)
    /\ UNCHANGED <<cache, configs, failure, dataset, models_list,
                   memberships, data_splits, auditing_dataset,
                   auditing_membership, signals, target_model_indices,
                   expanded, exp_idx, refs, scores, trimmed, mia_score_list,
                   membership_list, exp_reports, report, trace, fn_in,
                   fn_out>>

\* lines 82-86: load_models finds the ensemble on disk, or finds none
LoadModels ==
    /\ pc = "load_models"
    /\ pc' = "models_loaded"
    /\ Call("load_models")
    /\ \E found \in {"models", "none", "memberships_only"}, S \in SplitChoices :
          LET splits == DataSplits(S, NumModels)
              M == [src |-> "load", M |-> MembershipOf(splits)]
          IN  /\ models_list' = IF found = "models"
                                THEN [src |-> "load", train_sets |-> splits]
                                ELSE NoValue
              /\ memberships' = IF found = "none" THEN NoValue ELSE M
    /\ UNCHANGED <<cache, configs, failure, dataset, num_model_pairs,
                   data_splits, auditing_dataset, auditing_membership,
                   signals, target_model_indices, expanded, exp_idx, refs,
                   scores, trimmed, mia_score_list, membership_list,
                   exp_reports, report, fn_in, fn_out>>

\* line 87 false: the loaded ensemble is used
ModelsFound ==
    /\ pc = "models_loaded"
    /\ models_list # NoValue
    /\ pc' = "range_dataset"
    /\ UNCHANGED <<cache, configs, failure, trace, fn_in, fn_out>>
    /\ UNCHANGED runVars

\* lines 89-91 with the assignment to memberships lost when load_models gave one
SplitDatasetKeepMemberships ==
    /\ pc = "models_loaded"
    /\ models_list = NoValue
    /\ pc' = "train"
    /\ Call("split_dataset_for_training")
    /\ \E S \in SplitChoices :
          LET splits == DataSplits(S, NumModels)
          IN  /\ data_splits' = splits
              /\ memberships' =
                     IF memberships = NoValue
                     THEN [src |-> "split", M |-> MembershipOf(splits)]
                     ELSE memberships
    /\ UNCHANGED <<cache, configs, failure, dataset, num_model_pairs,
                   models_list, auditing_dataset, auditing_membership,
                   signals, target_model_indices, expanded, exp_idx, refs,
                   scores, trimmed, mia_score_list, membership_list,
                   exp_reports, report, fn_in, fn_out>>

\* lines 87-91
SplitDataset ==
    /\ pc = "models_loaded"
    /\ models_list = NoValue
    /\ pc' = "train"
    /\ Call("split_dataset_for_training")
    /\ \E S \in SplitChoices :
          LET splits == DataSplits(S, NumModels)
          IN  /\ data_splits' = splits
              /\ memberships' = [src |-> "split", M |-> MembershipOf(splits)]
    /\ UNCHANGED <<cache, configs, failure, dataset, num_model_pairs,
                   models_list, auditing_dataset, auditing_membership,
                   signals, target_model_indices, expanded, exp_idx, refs,
                   scores, trimmed, mia_score_list, membership_list,
                   exp_reports, report, fn_in, fn_out>>

\* lines 92-97
TrainModels ==
    /\ pc = "train"
    /\ pc' = "range_dataset"
    /\ Call("train_models")
    /\ models_list' = [src |-> "train", train_sets |-> data_splits]
    /\ UNCHANGED <<cache, configs, failure, dataset, num_model_pairs,
                   memberships, data_splits, auditing_dataset,
                   auditing_membership, signals, target_model_indices,
                   expanded, exp_idx, refs, scores, trimmed, mia_score_list,
                   membership_list, exp_reports, report, fn_in, fn_out>>

\* lines 100-110: the cache file exists and is unpickled as it is
LoadRangeCache ==
    /\ pc = "range_dataset"
    /\ cache # NoValue
    /\ pc' = "sample"
    /\ dataset' = cache
    /\ Call("load_range_cache")
    /\ UNCHANGED <<cache, configs, failure, num_model_pairs,
                   models_list, memberships, data_splits, auditing_dataset,
                   auditing_membership, signals, target_model_indices,
                   expanded, exp_idx, refs, scores, trimmed, mia_score_list,
                   membership_list, exp_reports, report, fn_in, fn_out>>

\* lines 111-129: the range dataset is created and pickled
CreateRangeDataset ==
    /\ pc = "range_dataset"
    /\ cache = NoValue
    /\ pc' = "sample"
    /\ dataset' = [kind |-> "range", size |-> dataset.size,
                   sample_size |-> configs.sample_size]
    /\ cache' = dataset'
    /\ trace' = trace \o <<Event("create_range_dataset", -1),
                           Event("write_range_cache", -1)>>
    /\ UNCHANGED <<configs, failure, num_model_pairs,
                   models_list, memberships, data_splits, auditing_dataset,
                   auditing_membership, signals, target_model_indices,
                   expanded, exp_idx, refs, scores, trimmed, mia_score_list,
                   membership_list, exp_reports, report, fn_in, fn_out>>

\* lines 131-134: the selector picks base records and their labels
SampleAuditingDataset ==
    /\ pc = "sample"
    /\ pc' = "signals"
    /\ Call("sample_auditing_dataset")
    /\ \E sel \in Selections :
          /\ auditing_dataset' =
                 [indices |-> sel, sample_size |-> dataset.sample_size]
          /\ auditing_membership' = SelectColumns(memberships.M, sel)
    /\ UNCHANGED <<cache, configs, failure, dataset, num_model_pairs,
                   models_list, memberships, data_splits, signals,
                   target_model_indices, expanded, exp_idx, refs, scores,
                   trimmed, mia_score_list, membership_list, exp_reports,
                   report, fn_in, fn_out>>

\* get_model_signals called again for each experiment
SignalsDueInLoop == pc = "signals" \/ pc = "exp_audit"

\* where main() calls get_model_signals
SignalsDue == pc = "signals"

\* lines 136-138: get_model_signals is entered with an empty matrix
GetModelSignals ==
    /\ SignalsDue
    /\ pc' = "in_get_signals"
    /\ Call("get_model_signals")
    /\ signals' = [m \in 0 .. (NumModels - 1) |-> NoValue]
    /\ UNCHANGED <<cache, configs, failure, dataset, num_model_pairs,
                   models_list, memberships, data_splits, auditing_dataset,
                   auditing_membership, target_model_indices, expanded,
                   exp_idx, refs, scores, trimmed, mia_score_list,
                   membership_list, exp_reports, report, fn_in, fn_out>>

\* get_model_signals evaluates the next model on every audited record
WriteSignalRow ==
    /\ pc = "in_get_signals"
    /\ \E m \in DOMAIN signals :
          /\ signals[m] = NoValue
          /\ \A l \in DOMAIN signals : l < m => signals[l] # NoValue
          /\ signals' = [signals EXCEPT
                            ![m] = SignalRow(models_list, auditing_dataset, m)]
          /\ CallOn("signal_row", m)
    /\ UNCHANGED <<cache, configs, pc, failure, dataset,
                   num_model_pairs, models_list, memberships, data_splits,
                   auditing_dataset, auditing_membership,
                   target_model_indices, expanded, exp_idx, refs, scores,
                   trimmed, mia_score_list, membership_list, exp_reports,
                   report, fn_in, fn_out>>

\* lines 138-139: get_model_signals returns the matrix
ReturnSignals ==
    /\ pc = "in_get_signals"
    /\ \A m \in DOMAIN signals : signals[m] # NoValue
    /\ pc' = "audit"
    /\ UNCHANGED <<cache, configs, failure, trace, fn_in, fn_out>>
    /\ UNCHANGED runVars

\* the i-th target of the audit loop (0-based position)
Target == target_model_indices[exp_idx + 1]

\* lines 141-153: the call of audit_models_range and its shape validation.
\* run_range_mia.py calls audit_models_range without defining or importing
\* it (line 13 imports audit_models); its body, the three Experiment steps
\* below, follows the design of the audit engine.
AuditModelsRangeCall ==
    /\ pc = "audit"
    /\ Call("audit_models_range")
    /\ target_model_indices' =
           [i \in 1 .. configs.num_experiments |-> i - 1]
    /\ expanded' = NpRepeatAxis1(auditing_membership, configs.sample_size)
    /\ IF Len(signals[0]) = Len(expanded'[0])
       THEN pc' = "exp_audit" /\ failure' = failure
       ELSE pc' = "failed" /\ failure' = "shape"
    /\ exp_idx' = 0
    /\ mia_score_list' = <<>>
    /\ membership_list' = <<>>
    /\ UNCHANGED <<cache, configs, dataset, num_model_pairs,
                   models_list, memberships, data_splits, auditing_dataset,
                   auditing_membership, signals, refs, scores, trimmed,
                   exp_reports, report, fn_in, fn_out>>

\* audit_models_range: the likelihood-ratio audit of one target
ExperimentAudit ==
    /\ pc = "exp_audit"
    /\ pc' = "exp_trim"
    /\ CallOn("audit", Target)
    /\ refs' = ReferenceModels(Target, configs.num_ref_models, NumModels)
    /\ scores' = [c \in 1 .. Len(signals[Target]) |->
                     Score(signals, Target, refs', c)]
    /\ UNCHANGED <<cache, configs, failure, dataset, num_model_pairs,
                   models_list, memberships, data_splits, auditing_dataset,
                   auditing_membership, signals, target_model_indices,
                   expanded, exp_idx, trimmed, mia_score_list,
                   membership_list, exp_reports, report, fn_in, fn_out>>

\* audit_models_range: the range scores of each base record are trimmed
ExperimentTrim ==
    /\ pc = "exp_trim"
    /\ pc' = "exp_report"
    /\ CallOn("trim_mia_scores", Target)
    /\ trimmed' =
           [g \in 1 .. Len(auditing_dataset.indices) |->
               trim_mia_scores(Group(scores, g, configs.sample_size),
                               configs.trim_pct)]
    /\ UNCHANGED <<cache, configs, failure, dataset, num_model_pairs,
                   models_list, memberships, data_splits, auditing_dataset,
                   auditing_membership, signals, target_model_indices,
                   expanded, exp_idx, refs, scores, mia_score_list,
                   membership_list, exp_reports, report, fn_in, fn_out>>

\* audit_models_range: the experiment's risk report, and its results kept
ExperimentReport ==
    /\ pc = "exp_report"
    /\ CallOn("report", Target)
    /\ LET mvec == [g \in 1 .. Len(auditing_dataset.indices) |->
                       expanded[Target][(g - 1) * configs.sample_size + 1]]
       IN  /\ mia_score_list' = Append(mia_score_list, trimmed)
           /\ membership_list' = Append(membership_list, mvec)
           /\ exp_reports' = Append(exp_reports,
                                    [target |-> Target,
                                     refs |-> refs,
                                     scores |-> trimmed,
                                     usable |-> BothClasses(mvec)])
    /\ exp_idx' = exp_idx + 1
    /\ pc' = IF exp_idx + 1 < Len(target_model_indices)
             THEN "exp_audit" ELSE "audit_return"
    /\ UNCHANGED <<cache, configs, failure, dataset, num_model_pairs,
                   models_list, memberships, data_splits, auditing_dataset,
                   auditing_membership, signals, target_model_indices,
                   expanded, refs, scores, trimmed, report, fn_in, fn_out>>

\* line 145: audit_models_range returns both lists
AuditReturn ==
    /\ pc = "audit_return"
    /\ pc' = "average"
    /\ UNCHANGED <<cache, configs, failure, trace, fn_in, fn_out>>
    /\ UNCHANGED runVars

\* line 161 with >= 1
AverageGuardAlways(n) == n >= 1

\* line 161
AverageGuard(n) == n > 1

\* get_average_audit_results called while experiments are still to run
AverageDueInLoop == pc = "average" \/ (pc = "exp_audit" /\ exp_idx >= 1)

\* where main() calls get_average_audit_results
AverageDue == pc = "average"

\* one-class experiments are left out of the average, each with a diagnostic
UsableExperiments(mlist) == {i \in DOMAIN mlist : BothClasses(mlist[i])}

\* lines 160-164
GetAverageAuditResults ==
    /\ AverageDue
    /\ AverageGuard(Len(target_model_indices))
    /\ pc' = "finish"
    /\ Call("get_average_audit_results")
    /\ report' = [usable |-> Cardinality(UsableExperiments(membership_list)),
                  averaged |-> UsableExperiments(membership_list),
                  diagnostics |-> (DOMAIN membership_list)
                                    \ UsableExperiments(membership_list)]
    /\ UNCHANGED <<cache, configs, failure, dataset, num_model_pairs,
                   models_list, memberships, data_splits, auditing_dataset,
                   auditing_membership, signals, target_model_indices,
                   expanded, exp_idx, refs, scores, trimmed, mia_score_list,
                   membership_list, exp_reports, fn_in, fn_out>>

\* line 161 false: a single experiment is not averaged
SkipAverage ==
    /\ AverageDue
    /\ ~AverageGuard(Len(target_model_indices))
    /\ pc' = "finish"
    /\ UNCHANGED <<cache, configs, failure, trace, fn_in, fn_out>>
    /\ UNCHANGED runVars

\* line 166
Finish ==
    /\ pc = "finish"
    /\ pc' = "done"
    /\ UNCHANGED <<cache, configs, failure, trace, fn_in, fn_out>>
    /\ UNCHANGED runVars

\* the process ends, by the return of main() or by the exception raised;
\* only the files on disk remain
Exit ==
    /\ pc \in {"done", "failed"}
    /\ pc' = "idle"
    /\ configs' = NoValue
    /\ failure' = NoFailure
    /\ dataset' = NoValue
    /\ num_model_pairs' = 0
    /\ models_list' = NoValue
    /\ memberships' = NoValue
    /\ data_splits' = NoValue
    /\ auditing_dataset' = NoValue
    /\ auditing_membership' = NoValue
    /\ signals' = NoValue
    /\ target_model_indices' = <<>>
    /\ expanded' = NoValue
    /\ exp_idx' = 0
    /\ refs' = {}
    /\ scores' = <<>>
    /\ trimmed' = <<>>
    /\ mia_score_list' = <<>>
    /\ membership_list' = <<>>
    /\ exp_reports' = <<>>
    /\ report' = NoValue
    /\ trace' = <<>>
    /\ UNCHANGED <<cache, fn_in, fn_out>>

Next ==
    \/ StartRun
    \/ CheckConfigs
    \/ SetupRun
    \/ LoadDataset
    \/ DefineExperimentParameters
    \/ LoadModels
    \/ ModelsFound
    \/ SplitDataset
    \/ TrainModels
    \/ LoadRangeCache
    \/ CreateRangeDataset
    \/ SampleAuditingDataset
    \/ GetModelSignals
    \/ WriteSignalRow
    \/ ReturnSignals
    \/ AuditModelsRangeCall
    \/ ExperimentAudit
    \/ ExperimentTrim
    \/ ExperimentReport
    \/ AuditReturn
    \/ GetAverageAuditResults
    \/ SkipAverage
    \/ Finish
    \/ Exit

Spec == Init /\ [][Next]_vars

\* ------------------------------------------- the pure functions on inputs
ExampleScores == <<1, 2, 3, 4, 100>>

Permuted(grp, p) == [i \in 1 .. Len(grp) |-> grp[p[i]]]

Groups ==
    UNION {[1 .. k -> 0 .. MaxScore] : k \in 1 .. MaxGroup}

TrimInputs ==
    {[fn |-> "trim_mia_scores", grp |-> g, pct |-> t, ne |-> 0, nr |-> 0] :
        g \in Groups, t \in TrimPcts}
    \cup
    {[fn |-> "trim_mia_scores", grp |-> Permuted(ExampleScores, p),
      pct |-> 20, ne |-> 0, nr |-> 0] : p \in Permutations(1 .. 5)}

PairInputs ==
    {[fn |-> "num_model_pairs", grp |-> <<>>, pct |-> 0, ne |-> e, nr |-> r] :
        e \in 1 .. MaxFnExperiments, r \in 0 .. MaxFnRefModels}

FnInit ==
    /\ cache = NoValue
    /\ configs = NoValue
    /\ pc = "idle"
    /\ FreshRun
    /\ fn_in \in TrimInputs \cup PairInputs
    /\ fn_out = NoValue

ApplyTrim ==
    /\ fn_out = NoValue
    /\ fn_in.fn = "trim_mia_scores"
    /\ fn_out' = [value |-> trim_mia_scores(fn_in.grp, fn_in.pct)]
    /\ UNCHANGED <<cache, configs, pc, failure, trace, fn_in>>
    /\ UNCHANGED runVars

ApplyNumModelPairs ==
    /\ fn_out = NoValue
    /\ fn_in.fn = "num_model_pairs"
    /\ fn_out' = [value |-> NumModelPairs(fn_in.ne, fn_in.nr)]
    /\ UNCHANGED <<cache, configs, pc, failure, trace, fn_in>>
    /\ UNCHANGED runVars

FnNext == ApplyTrim \/ ApplyNumModelPairs

FnSpec == FnInit /\ [][FnNext]_vars

\* ------------------------------------------------------------ claims
Count(op) == Cardinality({i \in DOMAIN trace : trace[i].op = op})

CountOn(op, arg) ==
    Cardinality({i \in DOMAIN trace : trace[i] = Event(op, arg)})

Before(op1, op2) ==
    \A j \in DOMAIN trace :
        trace[j].op = op2 =>
            \A i \in DOMAIN trace : trace[i].op = op1 => i < j

Selected == Len(auditing_dataset.indices)

\* C1: the membership matrix handed to the range audit repeats every column
\* of the selected base-record membership matrix sample_size times in place:
\* expanded[m][b * sample_size + j] = auditing_membership[m][b], and it has
\* (selected base records * sample_size) columns.
C1_ExpandedMembership ==
    expanded # NoValue =>
        /\ DOMAIN expanded = DOMAIN auditing_membership
        /\ \A m \in DOMAIN expanded :
              /\ Len(expanded[m]) = Selected * configs.sample_size
              /\ \A b \in 0 .. (Selected - 1) :
                    \A j \in 0 .. (configs.sample_size - 1) :
                        expanded[m][b * configs.sample_size + j + 1]
                            = auditing_membership[m][b + 1]

C1_Witness ==
    /\ expanded # NoValue
    /\ configs.sample_size >= 2
    /\ Selected >= 2
    /\ \E m \in DOMAIN auditing_membership :
          auditing_membership[m][1] # auditing_membership[m][2]

\* C2: in every run, also one that loads the cache file of an earlier run,
\* the range dataset used for the audit has the configured sample_size range
\* points per base record, so the audited range-point records are as many as
\* the columns of the expanded membership matrix.
C2_RangeDatasetMatchesConfig ==
    expanded # NoValue =>
        /\ dataset.sample_size = configs.sample_size
        /\ Len(signals[0]) = Len(expanded[0])

\* C3: the reference models of every experiment contain neither the target
\* nor the other model of the target's training pair.
C3_ReferencesExcludeTargetPair ==
    /\ \A i \in DOMAIN exp_reports :
          /\ \A r \in exp_reports[i].refs :
                /\ r \in 0 .. (NumModels - 1)
                /\ r \div 2 # exp_reports[i].target \div 2
          /\ Cardinality(exp_reports[i].refs) = configs.num_ref_models
    /\ pc \in {"exp_trim", "exp_report"} =>
          \A r \in refs : r \div 2 # Target \div 2

C3_Witness ==
    /\ Len(exp_reports) = 2
    /\ exp_reports[1].target = 0
    /\ exp_reports[2].target = 1

ConfigError(cfg) ==
    \/ cfg.sample_size <= 0
    \/ cfg.num_ref_models < 2
    \/ 2 * ((cfg.sample_size * cfg.trim_pct) \div 100) >= cfg.sample_size

\* C4: a configuration error stops the run at check_configs, before any
\* dataset or model is loaded or trained, any range dataset created or
\* cached, any signal computed or any audit run.
C4_ConfigErrorFailsFast ==
    /\ (pc \notin {"idle", "check_configs"} /\ ConfigError(configs)) =>
          (pc = "failed" /\ failure = "config")
    /\ failure = "config" =>
          /\ trace = <<Event("check_configs", -1)>>
          /\ dataset = NoValue
          /\ models_list = NoValue
          /\ memberships = NoValue
          /\ signals = NoValue
          /\ expanded = NoValue
          /\ exp_reports = <<>>
          /\ report = NoValue

C4_Witness ==
    /\ failure = "config"
    /\ configs.sample_size = 0
    /\ cache # NoValue

\* C5: the signal matrix is computed by one call of get_model_signals, every
\* row is written once, it is complete before the first experiment's audit,
\* and every experiment reads the same values.
C5_SignalsWrittenOnce ==
    /\ Count("get_model_signals") <= 1
    /\ signals # NoValue =>
          \A m \in DOMAIN signals : CountOn("signal_row", m) <= 1
    /\ Before("signal_row", "audit_models_range")
    /\ Before("signal_row", "audit")
    /\ Count("audit_models_range") >= 1 =>
          /\ Count("get_model_signals") = 1
          /\ DOMAIN signals = 0 .. (NumModels - 1)
          /\ \A m \in DOMAIN signals :
                /\ CountOn("signal_row", m) = 1
                /\ signals[m] = SignalRow(models_list, auditing_dataset, m)

C5_Witness ==
    /\ pc = "done"
    /\ Len(exp_reports) = 2

EventBefore(e1, e2) ==
    \A j \in DOMAIN trace :
        trace[j] = e2 => \A i \in DOMAIN trace : trace[i] = e1 => i < j

\* C6: the stages run in the order subset selection, signal extraction,
\* audit, trimmed aggregation, risk reporting; each experiment's range-point
\* scores are collapsed to one score per base record before they are
\* reported, and averaging starts only when every experiment's scores and
\* memberships have been collected.
C6_StageOrder ==
    /\ Before("sample_auditing_dataset", "get_model_signals")
    /\ Before("get_model_signals", "signal_row")
    /\ Before("signal_row", "audit_models_range")
    /\ Before("audit_models_range", "audit")
    /\ \A k \in DOMAIN trace :
          LET t == trace[k].arg
          IN  /\ trace[k].op = "trim_mia_scores" =>
                    /\ CountOn("audit", t) = 1
                    /\ EventBefore(Event("audit", t), trace[k])
              /\ trace[k].op = "report" =>
                    /\ CountOn("trim_mia_scores", t) = 1
                    /\ EventBefore(Event("trim_mia_scores", t), trace[k])
    /\ Before("report", "get_average_audit_results")
    /\ \A i \in DOMAIN exp_reports :
          /\ exp_reports[i].scores = mia_score_list[i]
          /\ Len(mia_score_list[i]) = Selected
          /\ Len(membership_list[i]) = Selected
          /\ Len(signals[exp_reports[i].target])
                 = Selected * configs.sample_size
    /\ Count("get_average_audit_results") >= 1 =>
          /\ Len(mia_score_list) = configs.num_experiments
          /\ Len(membership_list) = configs.num_experiments
          /\ \A t \in 0 .. (configs.num_experiments - 1) :
                CountOn("report", t) = 1

C6_Witness ==
    /\ report # NoValue
    /\ configs.sample_size = 3
    /\ configs.trim_pct = 50
    /\ Selected = 2
    /\ \E i \in DOMAIN mia_score_list : mia_score_list[i][1].n = 1

OneClass(i) == ~BothClasses(membership_list[i])

C7_WitnessAveraged ==
    /\ pc = "done"
    /\ report # NoValue
    /\ report.diagnostics # {}
    /\ report.averaged # {}

MinOf(grp) == CHOOSE x \in {grp[i] : i \in DOMAIN grp} :
                  \A i \in DOMAIN grp : x <= grp[i]

MaxOf(grp) == CHOOSE x \in {grp[i] : i \in DOMAIN grp} :
                  \A i \in DOMAIN grp : x >= grp[i]

IsExample(grp) ==
    \E p \in Permutations(1 .. 5) : grp = Permuted(ExampleScores, p)

\* C8: the aggregate of a range group is the mean of what is left of the
\* sorted scores after the trim fraction is cut from each tail; it is the
\* same for every order of the scores, with trim fraction 0 it is the plain
\* mean, and for [1, 2, 3, 4, 100] with trim fraction 0.2 it is 3.
C8_TrimmedMean ==
    (fn_out # NoValue /\ fn_in.fn = "trim_mia_scores") =>
        LET grp == fn_in.grp
            k == Len(grp)
            c == (k * fn_in.pct) \div 100
            out == fn_out.value
        IN  IF 2 * c >= k
            THEN out.raised = "ValueError"
            ELSE /\ out.raised = ""
                 /\ out.n = k - 2 * c
                 /\ c = 0 => out.sum = SumSeq(grp)
                 /\ c = 1 => out.sum = SumSeq(grp) - MinOf(grp) - MaxOf(grp)
                 /\ c <= 1
                 /\ \A p \in Permutations(1 .. k) :
                       trim_mia_scores(Permuted(grp, p), fn_in.pct) = out
                 /\ (IsExample(grp) /\ fn_in.pct = 20) =>
                       (out.n = 3 /\ out.sum = 3 * out.n)

C8_Witness ==
    /\ fn_out # NoValue
    /\ fn_in.fn = "trim_mia_scores"
    /\ fn_in.grp = <<100, 3, 1, 4, 2>>
    /\ fn_in.pct = 20
    /\ fn_out.value.sum = 9

\* C9: with num_model_pairs = max(ceil(num_experiments / 2),
\* num_reference_models + 1), every target index is a model index of the
\* 2 * num_model_pairs models, and once the target and its twin are taken
\* out at least num_reference_models models are left.
C9_EnoughModels ==
    (fn_out # NoValue /\ fn_in.fn = "num_model_pairs") =>
        /\ fn_in.ne <= 2 * fn_out.value
        /\ \A t \in 0 .. (fn_in.ne - 1) : t \in 0 .. (2 * fn_out.value - 1)
        /\ 2 * fn_out.value - 2 >= fn_in.nr
        /\ \A t \in 0 .. (fn_in.ne - 1) :
              Len(Eligible(t, 2 * fn_out.value)) >= fn_in.nr

C9_Witness ==
    /\ fn_out # NoValue
    /\ fn_in.fn = "num_model_pairs"
    /\ fn_in.ne = MaxFnExperiments
    /\ fn_in.nr = 0
    /\ 2 * fn_out.value >= MaxFnExperiments

\* C10: the ensemble and the membership matrix come from the same source:
\* loaded models keep load_models' memberships with no split and no
\* training; with no models loaded the memberships are those of the split
\* the models are trained on; training happens at most once, and only then.
C10_ModelsAndMembershipsSameSource ==
    /\ Count("train_models") <= 1
    /\ Count("split_dataset_for_training") <= 1
    /\ Before("load_models", "split_dataset_for_training")
    /\ Before("split_dataset_for_training", "train_models")
    /\ models_list # NoValue =>
          /\ memberships # NoValue
          /\ memberships.M = MembershipOf(models_list.train_sets)
          /\ IF models_list.src = "load"
             THEN /\ memberships.src = "load"
                  /\ Count("split_dataset_for_training") = 0
                  /\ Count("train_models") = 0
             ELSE /\ memberships.src = "split"
                  /\ models_list.train_sets = data_splits
                  /\ Count("split_dataset_for_training") = 1
                  /\ Count("train_models") = 1
    /\ auditing_membership # NoValue =>
          auditing_membership
              = SelectColumns(MembershipOf(models_list.train_sets),
                              auditing_dataset.indices)

C10_Witness ==
    /\ pc = "done"
    /\ models_list # NoValue
    /\ models_list.src = "train"
    /\ memberships.src = "split"

====
